---- MODULE Spec2Model ----
(***************************************************************************)
(* Ticket verification engine of freshservice-ai-tester:                   *)
(*   TicketVerifier.verify_batch / _compare_ticket / _generate_summary     *)
(*   (src/ticket_verifier.py) on top of                                    *)
(*   FreshserviceClient.get_tickets_by_email (src/freshservice_client.py). *)
(*                                                                         *)
(* Python values are represented as follows.                               *)
(*   str            a TLA+ string; `in`, split, strip and join are         *)
(*                  computed on the characters                             *)
(*   None           the string None (where the field holds strings or      *)
(*                  booleans) or the integer NoneInt (where it holds       *)
(*                  integers)                                              *)
(*   missing key    the string Absent                                      *)
(*   bool | None    "True", "False" or None                                *)
(*   group ids      decimal strings (the ids exceed 32 bits)               *)
(***************************************************************************)
EXTENDS Integers, Sequences, FiniteSets, TLC

VARIABLES
    hash_seed,              \* iteration order of str sets in this process,
                            \* Unobserved until a set of labels is joined
    sent_emails,            \* verify_batch argument
    sender_email,           \* verify_batch argument
    pc,                     \* position of verify_batch
    method,                 \* search of the fallback chain in flight (1..3)
    calls,                  \* get_tickets_by_email calls issued so far
    page,                   \* get_tickets_by_email: page
    all_tickets,            \* get_tickets_by_email: all_tickets
    fs_tickets,             \* verify_batch: candidate list
    idx,                    \* verify_batch: index of the next sent record
    matched_fs_tickets,     \* verify_batch: consumed ticket ids
    verification_results,   \* verify_batch: results so far
    output,                 \* verify_batch: returned dictionary
    second_run,             \* the frame of a second verify_batch call that
                            \* runs in another thread of the process
    label_log,              \* the expected labels returned so far by
                            \* _get_expected_urgency/impact_from_priority,
                            \* over the processes that called them
    counter_file,           \* ticket_counter.json: last_ticket_number, or
                            \* NoFile while the file does not exist
    current_number,         \* TicketCounter.current_number of the session
    handed_out              \* the ticket numbers handed out, over all sessions

vars == <<hash_seed, sent_emails, sender_email, pc, method, calls, page,
          all_tickets, fs_tickets, idx, matched_fs_tickets,
          verification_results, output, second_run,
          label_log, counter_file, current_number, handed_out>>

\* the state outside verify_batch
host_vars == <<label_log, counter_file, current_number, handed_out>>

----------------------------------------------------------------------------
(* Representation of Python values *)

None == "<None>"
Absent == "<absent>"
NoneInt == -1

PyBool(b) == IF b THEN "True" ELSE "False"

\* truthiness of a str-or-None value
Truthy(s) == s # None /\ s # ""

\* `a or b` on str-or-None values
PyOr(a, b) == IF Truthy(a) THEN a ELSE b

Digit == <<"0", "1", "2", "3", "4", "5", "6", "7", "8", "9">>

RECURSIVE IntToStr(_)
\* str(n) of a non-negative int
IntToStr(n) ==
    IF n < 10 THEN Digit[n + 1]
    ELSE IntToStr(n \div 10) \o Digit[(n % 10) + 1]

\* f"{v}" of an int-or-None value
FormatInt(v) == IF v = NoneInt THEN "None" ELSE IntToStr(v)

\* first index at which sub occurs in s, 0 when it does not occur
Find(sub, s) ==
    LET hits == {i \in 1..(Len(s) - Len(sub) + 1) :
                     SubSeq(s, i, i + Len(sub) - 1) = sub}
    IN  IF hits = {} THEN 0
        ELSE CHOOSE i \in hits : \A j \in hits : i <= j

\* `sub in s`
Contains(sub, s) == Find(sub, s) # 0

RECURSIVE Split(_, _)
\* s.split(sep)
Split(s, sep) ==
    LET i == Find(sep, s)
    IN  IF i = 0 THEN <<s>>
        ELSE <<SubSeq(s, 1, i - 1)>>
             \o Split(SubSeq(s, i + Len(sep), Len(s)), sep)

\* Strip that leaves the blanks in place
StripNothing(s) == s

RECURSIVE Strip(_)
\* s.strip()
Strip(s) ==
    IF Len(s) = 0 THEN s
    ELSE IF SubSeq(s, 1, 1) = " " THEN Strip(SubSeq(s, 2, Len(s)))
    ELSE IF SubSeq(s, Len(s), Len(s)) = " " THEN Strip(SubSeq(s, 1, Len(s) - 1))
    ELSE s

RECURSIVE Join(_, _)
\* sep.join(parts)
Join(sep, parts) ==
    IF Len(parts) = 0 THEN ""
    ELSE IF Len(parts) = 1 THEN parts[1]
    ELSE parts[1] \o sep \o Join(sep, Tail(parts))

\* the members of a sequence
Range(s) == {s[i] : i \in DOMAIN s}

\* the string hashing of the process has not shown in any result yet
Unobserved == <<>>

\* list(set(labels)): a set of str is iterated in the order that the string
\* hashing of the process (seed) gives it
SetToList(labels, seed) == SelectSeq(seed, LAMBDA l : l \in Range(labels))

----------------------------------------------------------------------------
(* TicketVerifier: class tables *)

FS_PRIORITY_MAP == (1 :> "Low") @@ (2 :> "Medium") @@ (3 :> "High") @@ (4 :> "Urgent")

FS_URGENCY_MAP == (1 :> "Low") @@ (2 :> "Medium") @@ (3 :> "High")

FS_IMPACT_MAP == (1 :> "Low") @@ (2 :> "Medium") @@ (3 :> "High")

\* a dict entry is one pair, a list entry is a list of pairs
PRIORITY_TO_URGENCY_IMPACT ==
    [p \in {"Priority 1", "Priority 2", "Priority 3", "Priority 4"} |->
        CASE p = "Priority 1" ->
                [kind |-> "dict", pairs |-> <<[urgency |-> 3, impact |-> 3]>>]
          [] p = "Priority 2" ->
                [kind |-> "list", pairs |-> <<[urgency |-> 3, impact |-> 2],
                                              [urgency |-> 2, impact |-> 3]>>]
          [] p = "Priority 3" ->
                [kind |-> "list", pairs |-> <<[urgency |-> 3, impact |-> 1],
                                              [urgency |-> 2, impact |-> 2],
                                              [urgency |-> 1, impact |-> 3]>>]
          [] p = "Priority 4" ->
                [kind |-> "dict", pairs |-> <<[urgency |-> 1, impact |-> 1]>>]]

VALID_GROUP_IDS == {"76000128925", "76000128926", "76000128927",
                    "76000138755", "76000165188", "76000209739"}

group_map ==
    ("76000128925" :> "Service Desk Team") @@
    ("76000128926" :> "Infrastructure Team") @@
    ("76000128927" :> "Application Team") @@
    ("76000138755" :> "Enterprise Technology") @@
    ("76000165188" :> "Lightbulbs") @@
    ("76000209739" :> "People & Safety Systems")

fields == <<"priority", "urgency", "impact", "type", "category",
            "sub_category", "item", "group">>

\* d.get(k, default) on the int-keyed label tables
MapGet(d, k, default) == IF k \in DOMAIN d THEN d[k] ELSE default

----------------------------------------------------------------------------
(* TicketVerifier: priority / urgency / impact mapper *)

\* _priority_name_to_number without the inversion of the scale
PriorityNameToNumberNotInverted(priority_name) ==
    CASE priority_name = "Priority 1" -> 1
      [] priority_name = "Priority 2" -> 2
      [] priority_name = "Priority 3" -> 3
      [] priority_name = "Priority 4" -> 4
      [] OTHER -> 2

\* _priority_name_to_number with Low as the fallback of an unrecognized name
PriorityNameToNumberFallbackLow(priority_name) ==
    CASE priority_name = "Priority 1" -> 4
      [] priority_name = "Priority 2" -> 3
      [] priority_name = "Priority 3" -> 2
      [] priority_name = "Priority 4" -> 1
      [] OTHER -> 1

_priority_name_to_number(priority_name) ==
    CASE priority_name = "Priority 1" -> 4
      [] priority_name = "Priority 2" -> 3
      [] priority_name = "Priority 3" -> 2
      [] priority_name = "Priority 4" -> 1
      [] OTHER -> 2

_get_expected_urgency_from_priority(priority, seed) ==
    IF priority \in DOMAIN PRIORITY_TO_URGENCY_IMPACT
    THEN LET mapping == PRIORITY_TO_URGENCY_IMPACT[priority]
             urgencies == [i \in DOMAIN mapping.pairs |->
                              FS_URGENCY_MAP[mapping.pairs[i].urgency]]
         IN  IF mapping.kind = "list"
             THEN Join(" or ", SetToList(urgencies, seed))
             ELSE urgencies[1]
    ELSE "Unknown"

\* the impact label with 'Low' for a priority name outside the table
ExpectedImpactFallbackLow(priority, seed) ==
    IF priority \in DOMAIN PRIORITY_TO_URGENCY_IMPACT
    THEN LET mapping == PRIORITY_TO_URGENCY_IMPACT[priority]
             impacts == [i \in DOMAIN mapping.pairs |->
                            FS_IMPACT_MAP[mapping.pairs[i].impact]]
         IN  IF mapping.kind = "list"
             THEN Join(" or ", SetToList(impacts, seed))
             ELSE impacts[1]
    ELSE "Low"

_get_expected_impact_from_priority(priority, seed) ==
    IF priority \in DOMAIN PRIORITY_TO_URGENCY_IMPACT
    THEN LET mapping == PRIORITY_TO_URGENCY_IMPACT[priority]
             impacts == [i \in DOMAIN mapping.pairs |->
                            FS_IMPACT_MAP[mapping.pairs[i].impact]]
         IN  IF mapping.kind = "list"
             THEN Join(" or ", SetToList(impacts, seed))
             ELSE impacts[1]
    ELSE "Unknown"

\* _check_urgency_match without the 'or' case
CheckUrgencyMatchSingle(expected, actual) ==
    expected = MapGet(FS_URGENCY_MAP, actual, "")

_check_urgency_match(expected, actual) ==
    IF Contains(" or ", expected)
    THEN LET valid_values == Split(expected, " or ")
             actual_str == MapGet(FS_URGENCY_MAP, actual, "")
         IN  actual_str \in Range(valid_values)
    ELSE expected = MapGet(FS_URGENCY_MAP, actual, "")

_check_impact_match(expected, actual) ==
    IF Contains(" or ", expected)
    THEN LET valid_values == Split(expected, " or ")
             actual_str == MapGet(FS_IMPACT_MAP, actual, "")
         IN  actual_str \in Range(valid_values)
    ELSE expected = MapGet(FS_IMPACT_MAP, actual, "")

_get_group_name(group_id) ==
    IF group_id \in DOMAIN group_map THEN group_map[group_id]
    ELSE "Unknown Group (ID: " \o group_id \o ")"

----------------------------------------------------------------------------
(* TicketVerifier._compare_ticket *)

\* 1 for a match, 0 otherwise: the `match_count += 1` of one field
Inc(b) == IF b THEN 1 ELSE 0

\* DiscoveryMode with `and` for `or`: discovery only when all keys are missing
DiscoveryModeAllMissing(sent_email) ==
    /\ sent_email.priority = Absent
    /\ sent_email.type = Absent
    /\ sent_email.category = Absent

\* 'priority' not in sent_email or 'type' not in ... or 'category' not in ...
DiscoveryMode(sent_email) ==
    \/ sent_email.priority = Absent
    \/ sent_email.type = Absent
    \/ sent_email.category = Absent

\* DefaultLow without the None test
DefaultLowMissing(v) == v

\* `if v is None: v = 1` for the ticket's urgency and impact
DefaultLow(v) == IF v = NoneInt THEN 1 ELSE v

\* OverallResult that tolerates one mismatch
OverallResultLenient(discovery_mode, mismatch_count) ==
    IF discovery_mode THEN "DISCOVERY"
    ELSE IF mismatch_count <= 1 THEN "PASS" ELSE "FAIL"

\* the keys that the seven classification comparisons write, in either mode
ClassificationFields ==
    {"priority", "urgency", "impact", "type", "category", "sub_category", "item"}

\* GroupField that is written only for a ticket with a group
GroupFieldWhenAssigned(fs_group_id) ==
    IF fs_group_id = None THEN {} ELSE {"group"}

\* the key that the group validation writes: each of its four branches
\* assigns comparisons['group']
GroupField(fs_group_id) == {"group"}

\* the verdict of one compared ticket
OverallResult(discovery_mode, mismatch_count) ==
    IF discovery_mode THEN "DISCOVERY"
    ELSE IF mismatch_count = 0 THEN "PASS" ELSE "FAIL"

NormalizeTypeKeepOthers(type) ==
    IF type = None THEN "Service Request" ELSE type

\* 'Incident' if fs_ticket.get('type') == 'Incident' else 'Service Request'
NormalizeType(type) ==
    IF type = "Incident" THEN "Incident" ELSE "Service Request"

_compare_ticket(sent_email, fs_ticket, seed) ==
    LET discovery_mode == DiscoveryMode(sent_email)
        expected_priority == IF discovery_mode THEN None ELSE sent_email.priority
        expected_type == IF discovery_mode THEN None ELSE sent_email.type
        expected_category == IF discovery_mode THEN None ELSE sent_email.category
        raw_parts == IF discovery_mode THEN <<>> ELSE Split(expected_category, ">")
        category_parts == [i \in DOMAIN raw_parts |-> Strip(raw_parts[i])]
        expected_cat == IF Len(category_parts) > 0 THEN category_parts[1] ELSE None
        expected_subcat == IF Len(category_parts) > 1 THEN category_parts[2] ELSE None
        expected_item == IF Len(category_parts) > 2 THEN category_parts[3] ELSE None
        fs_priority == fs_ticket.priority
        fs_urgency == DefaultLow(fs_ticket.urgency)
        fs_impact == DefaultLow(fs_ticket.impact)
        fs_category == fs_ticket.category
        fs_sub_category == fs_ticket.sub_category
        fs_item == fs_ticket.item
        fs_group_id == fs_ticket.group_id
        fs_ticket_type == NormalizeType(fs_ticket.type)
        actual_priority == MapGet(FS_PRIORITY_MAP, fs_priority,
                                  "Unknown (" \o FormatInt(fs_priority) \o ")")
        actual_urgency == MapGet(FS_URGENCY_MAP, fs_urgency,
                                 "Unknown (" \o FormatInt(fs_urgency) \o ")")
        actual_impact == MapGet(FS_IMPACT_MAP, fs_impact,
                                "Unknown (" \o FormatInt(fs_impact) \o ")")
        actual_group == IF fs_group_id # None THEN _get_group_name(fs_group_id)
                        ELSE "Unassigned"
        \* normal mode
        expected_priority_num == _priority_name_to_number(expected_priority)
        priority_match == (fs_priority = expected_priority_num)
        expected_urgency == _get_expected_urgency_from_priority(expected_priority, seed)
        urgency_match == _check_urgency_match(expected_urgency, fs_urgency)
        expected_impact == _get_expected_impact_from_priority(expected_priority, seed)
        impact_match == _check_impact_match(expected_impact, fs_impact)
        type_match == (fs_ticket_type = expected_type)
        category_match == (fs_category = expected_cat)
        subcat_match == (fs_sub_category = expected_subcat)
        item_match == (fs_item = expected_item)
        is_valid_group == fs_group_id # None /\ fs_group_id \in VALID_GROUP_IDS
        Report(actual) ==
            [expected |-> "Discovery Mode", actual |-> actual, match |-> None]
        Compared(expected, actual, match) ==
            [expected |-> expected, actual |-> actual, match |-> PyBool(match)]
        comparisons ==
            IF discovery_mode
            THEN [f \in ClassificationFields \cup GroupField(fs_group_id) |->
                    CASE f = "priority" -> Report(actual_priority)
                      [] f = "urgency" -> Report(actual_urgency)
                      [] f = "impact" -> Report(actual_impact)
                      [] f = "type" -> Report(fs_ticket_type)
                      [] f = "category" -> Report(PyOr(fs_category, "Not Set"))
                      [] f = "sub_category" -> Report(PyOr(fs_sub_category, "Not Set"))
                      [] f = "item" -> Report(PyOr(fs_item, "Not Set"))
                      [] f = "group" -> Report(actual_group)]
            ELSE [f \in ClassificationFields \cup GroupField(fs_group_id) |->
                    CASE f = "priority" ->
                            Compared(expected_priority, actual_priority, priority_match)
                      [] f = "urgency" ->
                            Compared(expected_urgency, actual_urgency, urgency_match)
                      [] f = "impact" ->
                            Compared(expected_impact, actual_impact, impact_match)
                      [] f = "type" ->
                            Compared(expected_type, fs_ticket_type, type_match)
                      [] f = "category" ->
                            Compared(PyOr(expected_cat, "N/A"),
                                     PyOr(fs_category, "Not Set"), category_match)
                      [] f = "sub_category" ->
                            Compared(PyOr(expected_subcat, "N/A"),
                                     PyOr(fs_sub_category, "Not Set"), subcat_match)
                      [] f = "item" ->
                            Compared(PyOr(expected_item, "N/A"),
                                     PyOr(fs_item, "Not Set"), item_match)
                      [] f = "group" ->
                            Compared("One of 6 valid groups", actual_group,
                                     is_valid_group)]
        match_count ==
            IF discovery_mode THEN 0
            ELSE Inc(priority_match) + Inc(urgency_match) + Inc(impact_match)
                 + Inc(type_match) + Inc(category_match) + Inc(subcat_match)
                 + Inc(item_match) + Inc(is_valid_group)
        mismatch_count ==
            IF discovery_mode THEN 0
            ELSE Inc(~priority_match) + Inc(~urgency_match) + Inc(~impact_match)
                 + Inc(~type_match) + Inc(~category_match) + Inc(~subcat_match)
                 + Inc(~item_match) + Inc(~is_valid_group)
        overall_result == OverallResult(discovery_mode, mismatch_count)
    IN  [ticket_number |-> sent_email.number,
         status |-> "FOUND",
         freshservice_id |-> fs_ticket.id,
         subject |-> sent_email.subject,
         comparisons |-> comparisons,
         overall_result |-> overall_result,
         match_count |-> match_count,
         mismatch_count |-> mismatch_count,
         expected |-> sent_email,
         actual |-> fs_ticket]

----------------------------------------------------------------------------
(* TicketVerifier._generate_summary *)

RECURSIVE GCD(_, _)
GCD(a, b) == IF b = 0 THEN a ELSE GCD(b, a % b)

\* the quotient n / d * 100 of Python's true division, kept as a fraction in
\* lowest terms (the rounding of the float result is not represented)
Percent(n, d) ==
    LET g == GCD(n * 100, d)
    IN  [num |-> (n * 100) \div g, den |-> d \div g]

Zero == [num |-> 0, den |-> 1]

\* len([r for r in results if r[key] == value])
CountWhere(results, key, value) ==
    Cardinality({i \in DOMAIN results : results[i][key] = value})

\* PassRate over the number of sent records
PassRateOverTotal(results) ==
    LET total == Len(results)
        passed == CountWhere(results, "overall_result", "PASS")
    IN  IF total > 0 THEN Percent(passed, total) ELSE Zero

\* (passed / found * 100) if found > 0 else 0
PassRate(results) ==
    LET found == CountWhere(results, "status", "FOUND")
        passed == CountWhere(results, "overall_result", "PASS")
    IN  IF found > 0 THEN Percent(passed, found) ELSE Zero

\* one entry of field_stats
FieldStat(results, field) ==
    LET checked == {i \in DOMAIN results :
                       /\ results[i].status = "FOUND"
                       /\ field \in DOMAIN results[i].comparisons
                       /\ results[i].comparisons[field].match # None}
        correct == Cardinality({i \in checked :
                       results[i].comparisons[field].match = "True"})
        total_checked == Cardinality(checked)
    IN  [correct |-> correct,
         total |-> total_checked,
         percentage |-> IF total_checked > 0
                        THEN Percent(correct, total_checked) ELSE Zero]

\* GroupDistribution over the results whose group was validated as a match
GroupDistributionValidOnly(results) ==
    LET grouped == {i \in DOMAIN results :
                       /\ results[i].status = "FOUND"
                       /\ "group" \in DOMAIN results[i].comparisons
                       /\ results[i].comparisons["group"].match = "True"}
        names == {results[i].comparisons["group"].actual : i \in grouped}
    IN  [g \in names |->
            Cardinality({i \in grouped :
                            results[i].comparisons["group"].actual = g})]

\* field_stats['group_distribution']
GroupDistribution(results) ==
    LET grouped == {i \in DOMAIN results :
                       /\ results[i].status = "FOUND"
                       /\ "group" \in DOMAIN results[i].comparisons}
        names == {results[i].comparisons["group"].actual : i \in grouped}
    IN  [g \in names |->
            Cardinality({i \in grouped :
                            results[i].comparisons["group"].actual = g})]

\* _generate_summary that takes every result that did not pass as failed
GenerateSummaryFailedIsRest(results) ==
    [total_tickets |-> Len(results),
     found |-> CountWhere(results, "status", "FOUND"),
     not_found |-> CountWhere(results, "status", "NOT_FOUND"),
     passed |-> CountWhere(results, "overall_result", "PASS"),
     failed |-> Len(results) - CountWhere(results, "overall_result", "PASS"),
     pass_rate |-> PassRate(results),
     field_stats |-> [f \in Range(fields) \cup {"group_distribution"} |->
                        IF f = "group_distribution"
                        THEN GroupDistribution(results)
                        ELSE FieldStat(results, f)]]

_generate_summary(results) ==
    [total_tickets |-> Len(results),
     found |-> CountWhere(results, "status", "FOUND"),
     not_found |-> CountWhere(results, "status", "NOT_FOUND"),
     passed |-> CountWhere(results, "overall_result", "PASS"),
     failed |-> CountWhere(results, "overall_result", "FAIL"),
     pass_rate |-> PassRate(results),
     field_stats |-> [f \in Range(fields) \cup {"group_distribution"} |->
                        IF f = "group_distribution"
                        THEN GroupDistribution(results)
                        ELSE FieldStat(results, f)]]

----------------------------------------------------------------------------
(* Bounds and inputs *)

MaxSent == 2        \* longest list of sent records
PerPage == 2        \* per_page of a search (100 in the program)
MaxTickets == 3     \* most tickets the source holds for one search
MaxCalls == 2       \* most label requests logged
MaxNumber == 3      \* largest ticket number handed out
MaxHandedOut == 4   \* most ticket numbers handed out over all sessions

\* orders in which a set of urgency / impact labels can be iterated
HashSeeds ==
    {<<"Low", "Medium", "High">>, <<"Low", "High", "Medium">>,
     <<"Medium", "Low", "High">>, <<"Medium", "High", "Low">>,
     <<"High", "Low", "Medium">>, <<"High", "Medium", "Low">>}

\* datetimes are whole hours since an epoch
batch_start_time == 50

SenderAddress == "tester@example.com"

Ticket(id, subject, priority, urgency, impact, type, category, sub_category, item, group_id) ==
    [id |-> id, subject |-> subject, priority |-> priority,
     urgency |-> urgency, impact |-> impact, type |-> type,
     category |-> category, sub_category |-> sub_category, item |-> item,
     group_id |-> group_id]

SentEmail(number, subject, priority, type, category) ==
    [number |-> number, subject |-> subject, priority |-> priority,
     type |-> type, category |-> category]

\* scenario A: the ticket that agrees with SentA on every field
TicketA ==
    Ticket(101, "[TEST-TKT-42] VPN down", 4, 3, 3, "Incident",
           "Network", "VPN", "Down", "76000128925")

\* scenario B: as TicketA with priority 2; its subject also carries tag 7
TicketB ==
    Ticket(102, "Re: [TEST-TKT-42] [TEST-TKT-7]", 2, 3, 3,
           "Incident", "Network", "VPN", "Down", "76000128925")

\* a ticket created by e-mail with nothing set; its tag has 42 as a prefix
TicketC ==
    Ticket(103, "[TEST-TKT-421] printer", NoneInt, NoneInt, NoneInt, None,
           None, None, None, None)

TicketPool == {TicketA, TicketB, TicketC}

SentA ==
    SentEmail(42, "[TEST-TKT-42] VPN down", "Priority 1", "Incident",
              "Network>VPN>Down")

\* a second record for tag 42, which lacks the category key only
SentDiscovery ==
    SentEmail(42, "[TEST-TKT-42]", "Priority 3", "Incident", Absent)

SentSeven ==
    SentEmail(7, "[TEST-TKT-7] new laptop", "Priority 2", "Service Request",
              "Hardware > Laptop")

SentPool == {SentA, SentDiscovery, SentSeven}

\* the sequences over S of length at most n
SeqsUpTo(S, n) == UNION {[1..k -> S] : k \in 0..n}

----------------------------------------------------------------------------
(* FreshserviceClient *)

Pad2(n) == IF n < 10 THEN "0" \o IntToStr(n) ELSE IntToStr(n)

\* dt.strftime('%Y-%m-%dT%H:%M:%SZ') at the resolution of the model's clock
format_timestamp(dt) ==
    "D" \o IntToStr(dt \div 24) \o "T" \o Pad2(dt % 24) \o ":00:00Z"

\* a chain that widens the search until some ticket carries a tag of the batch
AfterSearchUntilTagged(m, tickets, sent) ==
    LET tagged == \E i \in DOMAIN tickets, k \in DOMAIN sent :
                      Contains("[TEST-TKT-" \o IntToStr(sent[k].number) \o "]",
                               tickets[i].subject)
    IN  CASE m = 0 -> "returned"
          [] m = 1 -> IF ~tagged /\ sent # <<>> THEN "method2"
                      ELSE IF tickets = <<>> THEN "method3"
                      ELSE "match"
          [] m = 2 -> IF ~tagged THEN "method3" ELSE "match"
          [] OTHER -> "match"

\* the step that follows the return of search m: searches 1 to 3 return to
\* verify_batch, search 0 returns to get_recent_tickets, which returns the list
AfterSearch(m, tickets, sent) ==
    CASE m = 0 -> "returned"
      [] m = 1 -> IF tickets = <<>> /\ sent # <<>> THEN "method2"
                  ELSE IF tickets = <<>> THEN "method3"
                  ELSE "match"
      [] m = 2 -> IF tickets = <<>> THEN "method3" ELSE "match"
      [] OTHER -> "match"

\* get_tickets_by_email is entered: params are built, page = 1
StartSearch(m, email, updated_since) ==
    /\ method' = m
    /\ calls' = Append(calls, [email |-> email,
                               updated_since |-> updated_since,
                               found |-> NoneInt])
    /\ page' = 1
    /\ all_tickets' = <<>>
    /\ pc' = "fetch"
    /\ UNCHANGED <<hash_seed, sent_emails, sender_email, fs_tickets, idx,
                   matched_fs_tickets, verification_results, output,
                   second_run, host_vars>>

\* get_tickets_by_email returns tickets to verify_batch
ReturnTickets(tickets) ==
    /\ fs_tickets' = tickets
    /\ calls' = [calls EXCEPT ![Len(calls)].found = Len(tickets)]
    /\ pc' = AfterSearch(method, tickets, sent_emails)
    /\ UNCHANGED <<hash_seed, sent_emails, sender_email, method, idx,
                   matched_fs_tickets, verification_results, output,
                   second_run, host_vars>>

\* a page request answered with status 200 and a list of tickets
FetchPage ==
    /\ pc = "fetch"
    /\ \E tickets \in SeqsUpTo(TicketPool, PerPage) :
          /\ Len(all_tickets) + Len(tickets) <= MaxTickets
          /\ IF tickets = <<>>
             THEN /\ ReturnTickets(all_tickets)
                  /\ UNCHANGED <<page, all_tickets>>
             ELSE IF Len(tickets) < PerPage
             THEN /\ ReturnTickets(all_tickets \o tickets)
                  /\ all_tickets' = all_tickets \o tickets
                  /\ UNCHANGED page
             ELSE /\ all_tickets' = all_tickets \o tickets
                  /\ page' = page + 1
                  /\ UNCHANGED <<hash_seed, sent_emails, sender_email, pc,
                                 method, calls, fs_tickets, idx,
                                 matched_fs_tickets, verification_results,
                                 output, second_run, host_vars>>

\* a page request answered with a status other than 200: the loop breaks
FetchBadStatus ==
    /\ pc = "fetch"
    /\ ReturnTickets(all_tickets)
    /\ UNCHANGED <<page, all_tickets>>

\* a page request that raises (timeout, connection error, malformed JSON):
\* the except clause returns []
FetchRaises ==
    /\ pc = "fetch"
    /\ ReturnTickets(<<>>)
    /\ UNCHANGED <<page, all_tickets>>

----------------------------------------------------------------------------
(* TicketVerifier.verify_batch *)

\* Method 1: sender email (when given) and the batch timestamp
Method1 ==
    /\ pc = "method1"
    /\ StartSearch(1, IF Truthy(sender_email) THEN sender_email ELSE None,
                   format_timestamp(batch_start_time))

\* Method 2: the last 24 hours
Method2 ==
    /\ pc = "method2"
    /\ StartSearch(2, sender_email, format_timestamp(batch_start_time - 24))

\* Method 3: no time filter
Method3 ==
    /\ pc = "method3"
    /\ StartSearch(3, sender_email, None)

\* the tag without its closing bracket
PrefixUnclosed(ticket_num) == "[TEST-TKT-" \o IntToStr(ticket_num)

\* f"[TEST-TKT-{ticket_num}]"
Prefix(ticket_num) == "[TEST-TKT-" \o IntToStr(ticket_num) \o "]"

\* FindMatch without the `prefix in fs_subject` test
FindMatchAnySubject(prefix, tickets, matched) ==
    LET hits == {j \in DOMAIN tickets : tickets[j].id \notin matched}
    IN  IF hits = {} THEN 0
        ELSE CHOOSE j \in hits : \A k \in hits : j <= k

\* FindMatch without the `not in matched_fs_tickets` test
FindMatchIgnoringConsumed(prefix, tickets, matched) ==
    LET hits == {j \in DOMAIN tickets : Contains(prefix, tickets[j].subject)}
    IN  IF hits = {} THEN 0
        ELSE CHOOSE j \in hits : \A k \in hits : j <= k

\* FindMatch without the break: the last open ticket wins
FindMatchLast(prefix, tickets, matched) ==
    LET hits == {j \in DOMAIN tickets :
                    /\ Contains(prefix, tickets[j].subject)
                    /\ tickets[j].id \notin matched}
    IN  IF hits = {} THEN 0
        ELSE CHOOSE j \in hits : \A k \in hits : j >= k

\* the inner loop: index of the first ticket that carries the prefix and is
\* not consumed, 0 when the loop ends without a break
FindMatch(prefix, tickets, matched) ==
    LET hits == {j \in DOMAIN tickets :
                    /\ Contains(prefix, tickets[j].subject)
                    /\ tickets[j].id \notin matched}
    IN  IF hits = {} THEN 0
        ELSE CHOOSE j \in hits : \A k \in hits : j <= k

\* NotFoundResult with the verdict FAIL
NotFoundAsFail(sent_email) ==
    [ticket_number |-> sent_email.number,
     status |-> "NOT_FOUND",
     freshservice_id |-> NoneInt,
     subject |-> sent_email.subject,
     comparisons |-> <<>>,
     overall_result |-> "FAIL",
     match_count |-> 0,
     mismatch_count |-> 0,
     expected |-> sent_email]

NotFoundResult(sent_email) ==
    [ticket_number |-> sent_email.number,
     status |-> "NOT_FOUND",
     freshservice_id |-> NoneInt,
     subject |-> sent_email.subject,
     comparisons |-> <<>>,
     overall_result |-> "NOT_FOUND",
     match_count |-> 0,
     mismatch_count |-> 0,
     expected |-> sent_email]

RECURSIVE MatchLoop(_, _, _, _)
\* the whole `for sent_email in sent_emails` loop as a function of the records
\* still to process, the candidate list and the ids consumed so far
MatchLoop(sent, tickets, matched, seed) ==
    IF sent = <<>> THEN <<>>
    ELSE LET sent_email == Head(sent)
             j == FindMatch(Prefix(sent_email.number), tickets, matched)
         IN  IF j # 0
             THEN <<_compare_ticket(sent_email, tickets[j], seed)>>
                  \o MatchLoop(Tail(sent), tickets,
                               matched \cup {tickets[j].id}, seed)
             ELSE <<NotFoundResult(sent_email)>>
                  \o MatchLoop(Tail(sent), tickets, matched, seed)

\* the comparison of this record joins a set of labels (a list entry of
\* PRIORITY_TO_URGENCY_IMPACT, in normal mode)
JoinsLabelSet(sent_email) ==
    /\ ~DiscoveryMode(sent_email)
    /\ sent_email.priority \in DOMAIN PRIORITY_TO_URGENCY_IMPACT
    /\ PRIORITY_TO_URGENCY_IMPACT[sent_email.priority].kind = "list"

\* the iteration orders the comparison of this record can meet: any one the
\* first time a set is joined, the same one from then on
SeedsFor(sent_email) ==
    IF hash_seed = Unobserved /\ JoinsLabelSet(sent_email)
    THEN HashSeeds ELSE {hash_seed}

\* _compare_ticket raises for this record: the three keys are present and
\* the category is None, which has no split method (AttributeError)
CompareRaises(sent_email) ==
    /\ ~DiscoveryMode(sent_email)
    /\ sent_email.category = None

\* one iteration of `for sent_email in sent_emails`
MatchRecord ==
    /\ pc = "match"
    /\ idx <= Len(sent_emails)
    /\ LET sent_email == sent_emails[idx]
           j == FindMatch(Prefix(sent_email.number), fs_tickets,
                          matched_fs_tickets)
       IN  IF j # 0
           THEN /\ ~CompareRaises(sent_email)
                /\ matched_fs_tickets' = matched_fs_tickets \cup {fs_tickets[j].id}
                /\ \E seed \in SeedsFor(sent_email) :
                      /\ hash_seed' = seed
                      /\ verification_results' =
                             Append(verification_results,
                                    _compare_ticket(sent_email, fs_tickets[j], seed))
           ELSE /\ verification_results' =
                       Append(verification_results, NotFoundResult(sent_email))
                /\ UNCHANGED <<matched_fs_tickets, hash_seed>>
    /\ idx' = idx + 1
    /\ UNCHANGED <<sent_emails, sender_email, pc, method, calls,
                   page, all_tickets, fs_tickets, output, second_run,
                   host_vars>>

\* the iteration in which _compare_ticket raises: the ticket is consumed, and
\* the exception leaves the loop and verify_batch, which has no handler
MatchRecordRaises ==
    /\ pc = "match"
    /\ idx <= Len(sent_emails)
    /\ LET sent_email == sent_emails[idx]
           j == FindMatch(Prefix(sent_email.number), fs_tickets,
                          matched_fs_tickets)
       IN  /\ j # 0
           /\ CompareRaises(sent_email)
           /\ matched_fs_tickets' = matched_fs_tickets \cup {fs_tickets[j].id}
    /\ pc' = "raised"
    /\ UNCHANGED <<hash_seed, sent_emails, sender_email, method, calls, page,
                   all_tickets, fs_tickets, idx, verification_results, output,
                   second_run, host_vars>>

\* the loop is over: the summary is generated and the dictionary returned
ReturnResults ==
    /\ pc = "match"
    /\ idx > Len(sent_emails)
    /\ output' =
          [results |-> verification_results,
           summary |-> _generate_summary(verification_results),
           batch_start_time |-> batch_start_time,
           total_sent |-> Len(sent_emails),
           total_found |-> CountWhere(verification_results, "status", "FOUND"),
           total_not_found |->
               CountWhere(verification_results, "status", "NOT_FOUND")]
    /\ pc' = "done"
    /\ UNCHANGED <<hash_seed, sent_emails, sender_email, method, calls, page,
                   all_tickets, fs_tickets, idx, matched_fs_tickets,
                   verification_results, second_run, host_vars>>

NoOutput == [results |-> <<>>]

\* verify_batch is called once only
NoSecondRun == [pc |-> "none"]

\* os.path.exists(self.counter_file) is false
NoFile == NoneInt

\* nothing but verify_batch runs: no label was asked for, there is no counter
\* file and no TicketCounter
NoHost ==
    /\ label_log = <<>>
    /\ counter_file = NoFile
    /\ current_number = NoneInt
    /\ handed_out = <<>>

Init ==
    /\ hash_seed = Unobserved
    /\ sent_emails \in SeqsUpTo(SentPool, MaxSent)
    /\ sender_email \in {None, SenderAddress}
    /\ pc = "method1"
    /\ method = 0
    /\ calls = <<>>
    /\ page = 0
    /\ all_tickets = <<>>
    /\ fs_tickets = <<>>
    /\ idx = 1
    /\ matched_fs_tickets = {}
    /\ verification_results = <<>>
    /\ output = NoOutput
    /\ second_run = NoSecondRun
    /\ NoHost

Next ==
    \/ Method1
    \/ Method2
    \/ Method3
    \/ FetchPage
    \/ FetchBadStatus
    \/ FetchRaises
    \/ MatchRecord
    \/ ReturnResults

Spec == Init /\ [][Next]_vars

----------------------------------------------------------------------------
(* A batch of one sent record whose tag is carried by the one ticket that the
   first search returned: the comparison of every record shape with every
   ticket content *)

CompareSent ==
    {SentEmail(42, "[TEST-TKT-42] VPN down", priority, type, category) :
        priority \in {"Priority 1", "Priority 2", "Priority 3", "Priority 4",
                      "Priority 5", Absent},
        type \in {"Incident", "Service Request", Absent},
        category \in {"Network>VPN>Down", "Network > VPN",
                      "Network > VPN > Down > Client", Absent}}

CompareTickets ==
    {Ticket(101, "[TEST-TKT-42] VPN down", priority, urgency, impact, type,
            "Network", "VPN", item, group_id) :
        priority \in {NoneInt, 1, 2, 3, 4},
        urgency \in {NoneInt, 1, 2, 3},
        impact \in {NoneInt, 1, 2, 3},
        type \in {"Incident", "Service Request", "Problem", None},
        item \in {"Down", None},
        group_id \in {"76000128925", "76000999999", None}}

InitCompare ==
    /\ hash_seed = Unobserved
    /\ \E sent_email \in CompareSent : sent_emails = <<sent_email>>
    /\ \E fs_ticket \in CompareTickets : fs_tickets = <<fs_ticket>>
    /\ sender_email = None
    /\ pc = "match"
    /\ method = 1
    /\ calls = <<[email |-> None,
                  updated_since |-> format_timestamp(batch_start_time),
                  found |-> 1]>>
    /\ page = 1
    /\ all_tickets = fs_tickets
    /\ idx = 1
    /\ matched_fs_tickets = {}
    /\ verification_results = <<>>
    /\ output = NoOutput
    /\ second_run = NoSecondRun
    /\ NoHost

NextCompare ==
    \/ MatchRecord
    \/ ReturnResults

SpecCompare == InitCompare /\ [][NextCompare]_vars

----------------------------------------------------------------------------
(* The matching loop on the candidate list that the first search returned,
   where each tag of the batch also has a ticket of its own *)

\* the ticket that agrees with SentSeven on every field
TicketD ==
    Ticket(104, "[TEST-TKT-7] new laptop", 3, 3, 2, "Service Request",
           "Hardware", "Laptop", None, "76000128926")

MatchTickets == TicketPool \cup {TicketD}

InitMatch ==
    /\ hash_seed = Unobserved
    /\ sent_emails \in SeqsUpTo(SentPool, MaxSent)
    /\ fs_tickets \in SeqsUpTo(MatchTickets, MaxTickets) \ {<<>>}
    /\ sender_email = None
    /\ pc = "match"
    /\ method = 1
    /\ calls = <<[email |-> None,
                  updated_since |-> format_timestamp(batch_start_time),
                  found |-> Len(fs_tickets)]>>
    /\ page = 1 + (Len(fs_tickets) \div PerPage)
    /\ all_tickets = fs_tickets
    /\ idx = 1
    /\ matched_fs_tickets = {}
    /\ verification_results = <<>>
    /\ output = NoOutput
    /\ second_run = NoSecondRun
    /\ NoHost

NextMatch ==
    \/ MatchRecord
    \/ ReturnResults

SpecMatch == InitMatch /\ [][NextMatch]_vars

----------------------------------------------------------------------------
(* Two verify_batch calls on one TicketVerifier, in two threads of the process.
   fs_tickets, matched_fs_tickets and verification_results are locals of the
   call, so each call has its own; the verifier holds the client only.  The
   host launched the verification of one batch twice: both searches returned
   the same candidates, and both calls are at the matching loop. *)

\* the consumed set that the second call reads and extends, which is the set
\* of all calls of the process
ConsumedOfProcess == matched_fs_tickets \cup second_run.matched_fs_tickets

\* the consumed set that the second call reads and extends: the local set
\* that the call created
ConsumedOfSecondRun == second_run.matched_fs_tickets

\* one iteration of `for sent_email in sent_emails` in the second call
MatchRecordSecond ==
    /\ second_run.pc = "match"
    /\ second_run.idx <= Len(second_run.sent_emails)
    /\ LET sent_email == second_run.sent_emails[second_run.idx]
           j == FindMatch(Prefix(sent_email.number), second_run.fs_tickets,
                          ConsumedOfSecondRun)
       IN  IF j # 0
           THEN \E seed \in SeedsFor(sent_email) :
                   /\ hash_seed' = seed
                   /\ second_run' =
                         [second_run EXCEPT
                            !.matched_fs_tickets =
                                ConsumedOfSecondRun
                                    \cup {second_run.fs_tickets[j].id},
                            !.verification_results =
                                Append(@, _compare_ticket(sent_email,
                                              second_run.fs_tickets[j], seed)),
                            !.idx = @ + 1]
           ELSE /\ second_run' =
                      [second_run EXCEPT
                         !.verification_results =
                             Append(@, NotFoundResult(sent_email)),
                         !.idx = @ + 1]
                /\ UNCHANGED hash_seed
    /\ UNCHANGED <<sent_emails, sender_email, pc, method, calls, page,
                   all_tickets, fs_tickets, idx, matched_fs_tickets,
                   verification_results, output, host_vars>>

\* the loop of the second call is over: its dictionary is returned
ReturnResultsSecond ==
    /\ second_run.pc = "match"
    /\ second_run.idx > Len(second_run.sent_emails)
    /\ second_run' =
          [second_run EXCEPT
             !.pc = "done",
             !.output =
                 [results |-> second_run.verification_results,
                  summary |-> _generate_summary(second_run.verification_results),
                  batch_start_time |-> batch_start_time,
                  total_sent |-> Len(second_run.sent_emails),
                  total_found |->
                      CountWhere(second_run.verification_results,
                                 "status", "FOUND"),
                  total_not_found |->
                      CountWhere(second_run.verification_results,
                                 "status", "NOT_FOUND")]]
    /\ UNCHANGED <<hash_seed, sent_emails, sender_email, pc, method, calls,
                   page, all_tickets, fs_tickets, idx, matched_fs_tickets,
                   verification_results, output, host_vars>>

InitConcurrent ==
    /\ hash_seed = Unobserved
    /\ sent_emails \in SeqsUpTo(SentPool, MaxSent) \ {<<>>}
    /\ fs_tickets \in SeqsUpTo(TicketPool, MaxTickets) \ {<<>>}
    /\ sender_email = None
    /\ pc = "match"
    /\ method = 1
    /\ calls = <<[email |-> None,
                  updated_since |-> format_timestamp(batch_start_time),
                  found |-> Len(fs_tickets)]>>
    /\ page = 1 + (Len(fs_tickets) \div PerPage)
    /\ all_tickets = fs_tickets
    /\ idx = 1
    /\ matched_fs_tickets = {}
    /\ verification_results = <<>>
    /\ output = NoOutput
    /\ second_run = [pc |-> "match",
                     sent_emails |-> sent_emails,
                     fs_tickets |-> fs_tickets,
                     idx |-> 1,
                     matched_fs_tickets |-> {},
                     verification_results |-> <<>>,
                     output |-> NoOutput]
    /\ NoHost

NextConcurrent ==
    \/ MatchRecord
    \/ ReturnResults
    \/ MatchRecordSecond
    \/ ReturnResultsSecond

SpecConcurrent == InitConcurrent /\ [][NextConcurrent]_vars

----------------------------------------------------------------------------
(* The matching loop on batches that may hold a record with the three keys
   and a null category *)

SentNullCategory ==
    SentEmail(7, "[TEST-TKT-7] new laptop", "Priority 2", "Service Request",
              None)

InitMalformed ==
    /\ hash_seed = Unobserved
    /\ sent_emails \in SeqsUpTo(SentPool \cup {SentNullCategory}, MaxSent)
    /\ fs_tickets \in SeqsUpTo(MatchTickets, MaxTickets) \ {<<>>}
    /\ sender_email = None
    /\ pc = "match"
    /\ method = 1
    /\ calls = <<[email |-> None,
                  updated_since |-> format_timestamp(batch_start_time),
                  found |-> Len(fs_tickets)]>>
    /\ page = 1 + (Len(fs_tickets) \div PerPage)
    /\ all_tickets = fs_tickets
    /\ idx = 1
    /\ matched_fs_tickets = {}
    /\ verification_results = <<>>
    /\ output = NoOutput
    /\ second_run = NoSecondRun
    /\ NoHost

NextMalformed ==
    \/ MatchRecord
    \/ MatchRecordRaises
    \/ ReturnResults

SpecMalformed == InitMalformed /\ [][NextMalformed]_vars

----------------------------------------------------------------------------
(* FreshserviceAPIService.get_recent_tickets(email, limit), with limit equal
   to PerPage: the limit is handed to the client as the page size *)

get_recent_tickets ==
    /\ pc = "recent"
    /\ \E email \in {None, SenderAddress} : StartSearch(0, email, None)

InitRecent ==
    /\ hash_seed = Unobserved
    /\ sent_emails = <<>>
    /\ sender_email = None
    /\ pc = "recent"
    /\ method = 0
    /\ calls = <<>>
    /\ page = 1
    /\ all_tickets = <<>>
    /\ fs_tickets = <<>>
    /\ idx = 1
    /\ matched_fs_tickets = {}
    /\ verification_results = <<>>
    /\ output = NoOutput
    /\ second_run = NoSecondRun
    /\ NoHost

NextRecent ==
    \/ get_recent_tickets
    \/ FetchPage
    \/ FetchBadStatus
    \/ FetchRaises

SpecRecent == InitRecent /\ [][NextRecent]_vars

----------------------------------------------------------------------------
(* verify_batch against a ticket source that cannot be reached: every page
   request raises (connection error, timeout) *)

NextUnreachable ==
    \/ Method1
    \/ Method2
    \/ Method3
    \/ FetchRaises
    \/ MatchRecord
    \/ ReturnResults

SpecUnreachable == Init /\ [][NextUnreachable]_vars

----------------------------------------------------------------------------
(* _get_expected_urgency_from_priority and _get_expected_impact_from_priority
   called for a priority name, in the running process or, after a restart of
   the interpreter, in a new one.  The string hashing is randomized per
   process. *)

LabelPriorities ==
    {"Priority 1", "Priority 2", "Priority 3", "Priority 4", "Priority 5"}

\* the iteration orders a call for this priority name can meet
SeedsForPriority(priority) ==
    IF /\ hash_seed = Unobserved
       /\ priority \in DOMAIN PRIORITY_TO_URGENCY_IMPACT
       /\ PRIORITY_TO_URGENCY_IMPACT[priority].kind = "list"
    THEN HashSeeds ELSE {hash_seed}

\* one call of each of the two functions for one priority name
ExpectedLabels ==
    /\ Len(label_log) < MaxCalls
    /\ \E priority \in LabelPriorities :
          \E seed \in SeedsForPriority(priority) :
             /\ hash_seed' = seed
             /\ label_log' =
                   Append(label_log,
                          [priority |-> priority,
                           urgency |->
                               _get_expected_urgency_from_priority(priority, seed),
                           impact |->
                               _get_expected_impact_from_priority(priority, seed)])
    /\ UNCHANGED <<sent_emails, sender_email, pc, method, calls, page,
                   all_tickets, fs_tickets, idx, matched_fs_tickets,
                   verification_results, output, second_run, counter_file,
                   current_number, handed_out>>

\* the program is started again: a new process, with its own string hashing
NewProcess ==
    /\ hash_seed # Unobserved
    /\ hash_seed' = Unobserved
    /\ UNCHANGED <<sent_emails, sender_email, pc, method, calls, page,
                   all_tickets, fs_tickets, idx, matched_fs_tickets,
                   verification_results, output, second_run, host_vars>>

InitLabels ==
    /\ hash_seed = Unobserved
    /\ sent_emails = <<>>
    /\ sender_email = None
    /\ pc = "idle"
    /\ method = 0
    /\ calls = <<>>
    /\ page = 0
    /\ all_tickets = <<>>
    /\ fs_tickets = <<>>
    /\ idx = 1
    /\ matched_fs_tickets = {}
    /\ verification_results = <<>>
    /\ output = NoOutput
    /\ second_run = NoSecondRun
    /\ NoHost

NextLabels ==
    \/ ExpectedLabels
    \/ NewProcess

SpecLabels == InitLabels /\ [][NextLabels]_vars

----------------------------------------------------------------------------
(* TicketCounter over the sessions of the program. A session constructs one
   TicketCounter, allocates numbers for the emails it sends, and calls
   finalize at the end of a batch; the process can exit at any point.
   save_counter swallows an IOError, which leaves the file as it was: a
   stuttering step. reset(), which starts the numbering over on purpose, is
   not part of these sessions. *)

\* TicketCounter.load_counter: last_ticket_number + 1, or 1 without a file
load_counter(file) == IF file = NoFile THEN 1 ELSE file + 1

\* a session starts: TicketCounter() reads the file
TicketCounterInit ==
    /\ current_number = NoneInt
    /\ current_number' = load_counter(counter_file)
    /\ UNCHANGED <<hash_seed, sent_emails, sender_email, pc, method, calls,
                   page, all_tickets, fs_tickets, idx, matched_fs_tickets,
                   verification_results, output, second_run, label_log,
                   counter_file, handed_out>>

\* TicketCounter.get_next_number
get_next_number ==
    /\ current_number # NoneInt
    /\ current_number <= MaxNumber
    /\ Len(handed_out) < MaxHandedOut
    /\ handed_out' = Append(handed_out, current_number)
    /\ current_number' = current_number + 1
    /\ UNCHANGED <<hash_seed, sent_emails, sender_email, pc, method, calls,
                   page, all_tickets, fs_tickets, idx, matched_fs_tickets,
                   verification_results, output, second_run, label_log,
                   counter_file>>

\* TicketCounter.get_range(count): the numbers start..end go to the emails of
\* the batch
get_range ==
    /\ current_number # NoneInt
    /\ \E count \in 1..MaxNumber :
          LET start == current_number
              end == current_number + count - 1
          IN  /\ end <= MaxNumber
              /\ Len(handed_out) + count <= MaxHandedOut
              /\ handed_out' = handed_out \o [i \in 1..count |-> start + i - 1]
              /\ current_number' = end + 1
    /\ UNCHANGED <<hash_seed, sent_emails, sender_email, pc, method, calls,
                   page, all_tickets, fs_tickets, idx, matched_fs_tickets,
                   verification_results, output, second_run, label_log,
                   counter_file>>

\* TicketCounter.finalize: save_counter(current_number - 1)
finalize ==
    /\ current_number # NoneInt
    /\ counter_file' = current_number - 1
    /\ UNCHANGED <<hash_seed, sent_emails, sender_email, pc, method, calls,
                   page, all_tickets, fs_tickets, idx, matched_fs_tickets,
                   verification_results, output, second_run, label_log,
                   current_number, handed_out>>

\* the process ends (end of the program, sys.exit(1) after an error or
\* Ctrl+C, a closed window): the TicketCounter object is gone, the file stays
ProcessExit ==
    /\ current_number # NoneInt
    /\ current_number' = NoneInt
    /\ UNCHANGED <<hash_seed, sent_emails, sender_email, pc, method, calls,
                   page, all_tickets, fs_tickets, idx, matched_fs_tickets,
                   verification_results, output, second_run, label_log,
                   counter_file, handed_out>>

InitCounter ==
    /\ hash_seed = Unobserved
    /\ sent_emails = <<>>
    /\ sender_email = None
    /\ pc = "idle"
    /\ method = 0
    /\ calls = <<>>
    /\ page = 1
    /\ all_tickets = <<>>
    /\ fs_tickets = <<>>
    /\ idx = 1
    /\ matched_fs_tickets = {}
    /\ verification_results = <<>>
    /\ output = NoOutput
    /\ second_run = NoSecondRun
    /\ NoHost

NextCounter ==
    \/ TicketCounterInit
    \/ get_next_number
    \/ get_range
    \/ finalize
    \/ ProcessExit

SpecCounter == InitCounter /\ [][NextCounter]_vars

----------------------------------------------------------------------------
(* Properties *)

Found(k) == verification_results[k].status = "FOUND"

\* C1: no two sent records of one batch are bound to the same ticket id: the
\* freshservice_id values of the FOUND results are pairwise distinct.
C1_ExactlyOnceConsumption ==
    \A a, b \in DOMAIN verification_results :
        (a # b /\ Found(a) /\ Found(b)) =>
            verification_results[a].freshservice_id
                # verification_results[b].freshservice_id

\* two records with the same tag were both bound, out of a candidate list in
\* which several tickets carry that tag
C1_Witness ==
    /\ pc = "done"
    /\ \E a, b \in DOMAIN verification_results :
          /\ a < b /\ Found(a) /\ Found(b)
          /\ sent_emails[a].number = sent_emails[b].number
    /\ \E i, j \in DOMAIN fs_tickets :
          /\ i < j
          /\ Contains(Prefix(sent_emails[1].number), fs_tickets[i].subject)
          /\ Contains(Prefix(sent_emails[1].number), fs_tickets[j].subject)

\* the ticket ids bound by the records before record k
ConsumedBefore(k) ==
    {verification_results[m].freshservice_id : m \in {n \in 1..(k - 1) : Found(n)}}

\* the candidates open to record k, as positions of the candidate list
OpenTo(k) ==
    {j \in DOMAIN fs_tickets :
        /\ Contains("[TEST-TKT-" \o IntToStr(sent_emails[k].number) \o "]",
                    fs_tickets[j].subject)
        /\ fs_tickets[j].id \notin ConsumedBefore(k)}

\* C2: the records are processed in input order; each is bound to the first
\* ticket of the candidate list whose subject contains its tag and whose id no
\* earlier record of the batch has consumed, and that ticket is then consumed.
C2_FirstUnconsumedInOrder ==
    (pc \in {"match", "done"}) =>
        /\ Len(verification_results) = idx - 1
        /\ \A k \in DOMAIN verification_results :
              LET open == OpenTo(k)
              IN  /\ verification_results[k].expected = sent_emails[k]
                  /\ IF open = {}
                     THEN ~Found(k)
                     ELSE /\ Found(k)
                          /\ \E j \in open :
                                /\ \A i \in open : j <= i
                                /\ verification_results[k].actual = fs_tickets[j]
                                /\ fs_tickets[j].id \in matched_fs_tickets
        /\ matched_fs_tickets =
              {verification_results[k].freshservice_id :
                  k \in {n \in DOMAIN verification_results : Found(n)}}

\* the second record was bound to a later ticket than the first open one of the
\* list, because the earlier record had consumed that one
C2_Witness ==
    /\ pc = "done"
    /\ Len(verification_results) = 2
    /\ Found(1) /\ Found(2)
    /\ \E i, j \in DOMAIN fs_tickets :
          /\ i < j
          /\ verification_results[1].actual = fs_tickets[i]
          /\ verification_results[2].actual = fs_tickets[j]
          /\ Contains(Prefix(sent_emails[2].number), fs_tickets[i].subject)

Widened(k) == calls[k].updated_since = format_timestamp(batch_start_time - 24)

Unfiltered(k) == calls[k].updated_since = None

\* C3: for any list of sent records, with or without a sender email, an empty
\* first search is followed by the 24-hour search, and the unfiltered search is
\* issued only after the 24-hour search has also returned nothing.
C3_WidenSearchFallback ==
    (calls # <<>> /\ calls[1].found = 0) =>
        /\ Len(calls) >= 2 => Widened(2)
        /\ pc \in {"match", "done"} => Len(calls) >= 2
        /\ \A k \in DOMAIN calls :
              Unfiltered(k) =>
                  \E m \in 1..(k - 1) : Widened(m) /\ calls[m].found = 0

\* a sent record on which one of the keys priority, type, category is missing
AnyKeyAbsent(sent_email) ==
    \/ sent_email.priority = Absent
    \/ sent_email.type = Absent
    \/ sent_email.category = Absent

\* the results bound to a ticket / bound to a ticket in discovery mode
FoundResults == {k \in DOMAIN verification_results : Found(k)}

DiscoveryResults == {k \in FoundResults : AnyKeyAbsent(sent_emails[k])}

\* C4: a matched record that lacks any of the keys priority, type, category
\* has expected = 'Discovery Mode' and match = None in every field comparison,
\* match_count = mismatch_count = 0 and overall_result = DISCOVERY; the summary
\* counts it in found and in neither passed nor failed.
C4_DiscoveryModePurity ==
    /\ \A k \in DiscoveryResults :
          LET r == verification_results[k]
          IN  /\ \A f \in DOMAIN r.comparisons :
                    /\ r.comparisons[f].expected = "Discovery Mode"
                    /\ r.comparisons[f].match = None
              /\ r.comparisons # <<>>
              /\ r.match_count = 0
              /\ r.mismatch_count = 0
              /\ r.overall_result = "DISCOVERY"
    /\ pc = "done" =>
          /\ output.summary.found = Cardinality(FoundResults)
          /\ output.summary.passed + output.summary.failed
                = Cardinality(FoundResults \ DiscoveryResults)

\* a finished batch whose record lacks the type key only: the result is
\* counted as found, not as passed or failed
C4_Witness ==
    /\ pc = "done"
    /\ DiscoveryResults = {1}
    /\ sent_emails[1].priority # Absent
    /\ sent_emails[1].category # Absent
    /\ output.summary.found = 1
    /\ output.summary.passed = 0
    /\ output.summary.failed = 0

\* the results of scenario A: record SentA bound to ticket TicketA
ScenarioA ==
    {k \in FoundResults :
        /\ sent_emails[k] = SentA
        /\ verification_results[k].actual = TicketA}

ScenarioBTicket == [TicketA EXCEPT !.priority = 2]

\* C6: for a fully specified record matched to a ticket, overall_result is
\* PASS if and only if mismatch_count = 0 and FAIL otherwise, where
\* mismatch_count counts the field comparisons that are mismatches; scenario B
\* (expected Priority 1, actual priority 2) gives a priority mismatch,
\* mismatch_count >= 1 and FAIL.
C6_PassIffNoMismatch ==
    \A k \in FoundResults \ DiscoveryResults :
        LET r == verification_results[k]
        IN  /\ r.overall_result = IF r.mismatch_count = 0 THEN "PASS" ELSE "FAIL"
            /\ r.mismatch_count =
                  Cardinality({f \in DOMAIN r.comparisons :
                                  r.comparisons[f].match = "False"})
            /\ (sent_emails[k].priority = "Priority 1" /\ r.actual.priority = 2) =>
                  /\ r.comparisons["priority"].match = "False"
                  /\ r.mismatch_count >= 1
                  /\ r.overall_result = "FAIL"

\* scenario B was compared: the priority is its only mismatch
C6_Witness ==
    /\ pc = "done"
    /\ sent_emails[1] = SentA
    /\ fs_tickets[1] = ScenarioBTicket
    /\ verification_results[1].mismatch_count = 1
    /\ verification_results[1].overall_result = "FAIL"

\* the records for which no open candidate carries the tag
Unmatched == {k \in DOMAIN verification_results : OpenTo(k) = {}}

\* C7: a record for which no unconsumed candidate contains its tag gets a
\* result with status NOT_FOUND, no comparisons, match_count =
\* mismatch_count = 0 and no ticket id; the summary counts it in not_found and
\* in neither passed nor failed, and every record of the batch gets its result.
C7_NotFound ==
    LET unmatched == Unmatched
    IN  /\ \A k \in unmatched :
              LET r == verification_results[k]
              IN  /\ r.status = "NOT_FOUND"
                  /\ DOMAIN r.comparisons = {}
                  /\ r.match_count = 0
                  /\ r.mismatch_count = 0
                  /\ r.freshservice_id = NoneInt
                  /\ r.ticket_number = sent_emails[k].number
        /\ pc = "done" =>
              /\ Len(output.results) = Len(sent_emails)
              /\ output.summary.not_found = Cardinality(unmatched)
              /\ output.total_not_found = Cardinality(unmatched)
              /\ output.summary.passed + output.summary.failed
                    <= Len(sent_emails) - Cardinality(unmatched)

\* a finished batch in which one record was bound and another, although the
\* candidate list was not empty, was not found
C7_Witness ==
    /\ pc = "done"
    /\ fs_tickets # <<>>
    /\ Len(sent_emails) = 2
    /\ Cardinality(Unmatched) = 1
    /\ output.summary.passed + output.summary.failed = 1

\* C8: pass_rate is passed / found * 100 when found > 0 and 0 when found = 0;
\* the denominator is the number of found tickets, not of sent records.
C8_PassRateDenominator ==
    pc = "done" =>
        LET found == Cardinality(FoundResults)
            passed == Cardinality({k \in DOMAIN verification_results :
                          verification_results[k].overall_result = "PASS"})
            rate == output.summary.pass_rate
        IN  /\ rate.den > 0
            /\ IF found > 0
               THEN rate.num * found = passed * 100 * rate.den
               ELSE rate.num = 0

\* a finished batch with fewer tickets found than records sent, one passed
C8_Witness ==
    /\ pc = "done"
    /\ output.summary.found = 1
    /\ output.summary.passed = 1
    /\ output.total_sent = 2
    /\ output.summary.pass_rate = [num |-> 100, den |-> 1]

\* the urgency / impact labels of the valid pairs of a recognized priority
ValidUrgencyLabels(priority) ==
    {FS_URGENCY_MAP[PRIORITY_TO_URGENCY_IMPACT[priority].pairs[i].urgency] :
        i \in DOMAIN PRIORITY_TO_URGENCY_IMPACT[priority].pairs}

ValidImpactLabels(priority) ==
    {FS_IMPACT_MAP[PRIORITY_TO_URGENCY_IMPACT[priority].pairs[i].impact] :
        i \in DOMAIN PRIORITY_TO_URGENCY_IMPACT[priority].pairs}

\* C9: for a recognized priority name and an actual urgency of 1..3, the
\* urgency comparison is a match if and only if the label of the actual value
\* is an urgency label of one of the priority's valid pairs (Priority 2: 3 and
\* 2 match, 1 does not); the same for impact.
C9_PriorityDisjunction ==
    \A k \in FoundResults \ DiscoveryResults :
        LET r == verification_results[k]
            priority == sent_emails[k].priority
        IN  priority \in DOMAIN PRIORITY_TO_URGENCY_IMPACT =>
              /\ r.actual.urgency \in 1..3 =>
                    /\ (r.comparisons["urgency"].match = "True")
                         <=> (FS_URGENCY_MAP[r.actual.urgency]
                                 \in ValidUrgencyLabels(priority))
                    /\ r.comparisons["urgency"].match \in {"True", "False"}
                    /\ priority = "Priority 2" =>
                          ((r.comparisons["urgency"].match = "True")
                              <=> r.actual.urgency \in {2, 3})
              /\ r.actual.impact \in 1..3 =>
                    /\ (r.comparisons["impact"].match = "True")
                         <=> (FS_IMPACT_MAP[r.actual.impact]
                                 \in ValidImpactLabels(priority))
                    /\ r.comparisons["impact"].match \in {"True", "False"}

\* Priority 2 against urgency 2 (Medium), the second label of the disjunction
\* 'High or Medium': a match
C9_Witness ==
    /\ verification_results # <<>>
    /\ sent_emails[1].priority = "Priority 2"
    /\ sent_emails[1].type # Absent /\ sent_emails[1].category # Absent
    /\ fs_tickets[1].urgency = 2
    /\ verification_results[1].comparisons["urgency"].expected = "High or Medium"
    /\ verification_results[1].comparisons["urgency"].match = "True"

\* the ticket with a null urgency / impact replaced by 1
WithLowDefaults(fs_ticket) ==
    [fs_ticket EXCEPT !.urgency = IF @ = NoneInt THEN 1 ELSE @,
                      !.impact = IF @ = NoneInt THEN 1 ELSE @]

\* C10: a ticket whose urgency and/or impact is null gets the comparisons,
\* counts and verdict of the same ticket with that field set to 1, and the
\* field is reported as Low, in normal mode and in discovery mode.
C10_NullDefaulting ==
    \A k \in FoundResults :
        LET r == verification_results[k]
            same == _compare_ticket(sent_emails[k], WithLowDefaults(r.actual),
                                    hash_seed)
        IN  /\ r.comparisons = same.comparisons
            /\ r.match_count = same.match_count
            /\ r.mismatch_count = same.mismatch_count
            /\ r.overall_result = same.overall_result
            /\ r.actual.urgency = NoneInt => r.comparisons["urgency"].actual = "Low"
            /\ r.actual.impact = NoneInt => r.comparisons["impact"].actual = "Low"

\* Priority 4 against a ticket with neither urgency nor impact: both match Low
C10_Witness ==
    /\ verification_results # <<>>
    /\ sent_emails[1].priority = "Priority 4"
    /\ sent_emails[1].type # Absent /\ sent_emails[1].category # Absent
    /\ fs_tickets[1].urgency = NoneInt
    /\ fs_tickets[1].impact = NoneInt
    /\ verification_results[1].comparisons["urgency"].match = "True"
    /\ verification_results[1].comparisons["impact"].match = "True"

\* the six ids of the group allow-list
AllowListedGroups ==
    {"76000128925", "76000128926", "76000128927",
     "76000138755", "76000165188", "76000209739"}

\* the name under which the group of the ticket bound by result k is reported
ReportedGroup(k) ==
    LET group_id == verification_results[k].actual.group_id
    IN  CASE group_id = None -> "Unassigned"
          [] group_id = "76000128925" -> "Service Desk Team"
          [] group_id = "76000128926" -> "Infrastructure Team"
          [] group_id = "76000128927" -> "Application Team"
          [] group_id = "76000138755" -> "Enterprise Technology"
          [] group_id = "76000165188" -> "Lightbulbs"
          [] group_id = "76000209739" -> "People & Safety Systems"
          [] OTHER -> "Unknown Group (ID: " \o group_id \o ")"

\* C11: in normal mode the group comparison is a match if and only if the
\* ticket's group_id is one of the six allow-listed ids, and a null group_id is
\* a mismatch; for every FOUND result, in either mode, the group name of the
\* ticket (or 'Unassigned', or 'Unknown Group (ID: ...)') is the reported
\* actual value and is tallied once in the summary's group distribution.
C11_GroupAllowList ==
    /\ \A k \in FoundResults :
          LET r == verification_results[k]
          IN  /\ r.comparisons["group"].actual = ReportedGroup(k)
              /\ k \notin DiscoveryResults =>
                    /\ r.comparisons["group"].match =
                          IF r.actual.group_id \in AllowListedGroups
                          THEN "True" ELSE "False"
                    /\ r.actual.group_id = None =>
                          r.comparisons["group"].match = "False"
    /\ pc = "done" =>
          LET distribution == output.summary.field_stats["group_distribution"]
          IN  /\ DOMAIN distribution = {ReportedGroup(k) : k \in FoundResults}
              /\ \A g \in DOMAIN distribution :
                    distribution[g] =
                        Cardinality({k \in FoundResults : ReportedGroup(k) = g})

\* a fully specified record bound to a ticket of a group outside the
\* allow-list: a mismatch, and the group is tallied under its 'Unknown' name
C11_Witness ==
    /\ pc = "done"
    /\ FoundResults = {1}
    /\ DiscoveryResults = {}
    /\ fs_tickets[1].group_id = "76000999999"
    /\ verification_results[1].comparisons["group"].match = "False"
    /\ output.summary.field_stats["group_distribution"]
          = ("Unknown Group (ID: 76000999999)" :> 1)

\* the numeric priority that a priority name stands for
MappedPriority(priority_name) ==
    CASE priority_name = "Priority 1" -> 4
      [] priority_name = "Priority 2" -> 3
      [] priority_name = "Priority 3" -> 2
      [] priority_name = "Priority 4" -> 1
      [] OTHER -> 2

\* C12: in normal mode the priority comparison is a match if and only if the
\* ticket's numeric priority equals the mapped value of the expected priority
\* name: Priority 1 is 4, Priority 2 is 3, Priority 3 is 2, Priority 4 is 1,
\* and every unrecognized name is 2.
C12_PriorityMapping ==
    \A k \in FoundResults \ DiscoveryResults :
        LET r == verification_results[k]
        IN  /\ r.comparisons["priority"].match =
                  IF r.actual.priority = MappedPriority(sent_emails[k].priority)
                  THEN "True" ELSE "False"
            /\ r.comparisons["priority"].expected = sent_emails[k].priority

\* an unrecognized priority name against a ticket of priority 2: a match
C12_Witness ==
    /\ verification_results # <<>>
    /\ DiscoveryResults = {}
    /\ sent_emails[1].priority = "Priority 5"
    /\ fs_tickets[1].priority = 2
    /\ verification_results[1].comparisons["priority"].match = "True"

\* C13: every FOUND result, in normal mode and in discovery mode and for every
\* ticket content, has a comparisons map with exactly the eight fields
\* priority, urgency, impact, type, category, sub_category, item and group,
\* each with an expected value, an actual value and a match flag.
C13_AllFieldsReported ==
    \A k \in FoundResults :
        LET r == verification_results[k]
        IN  /\ DOMAIN r.comparisons =
                  {"priority", "urgency", "impact", "type", "category",
                   "sub_category", "item", "group"}
            /\ \A f \in DOMAIN r.comparisons :
                  DOMAIN r.comparisons[f] = {"expected", "actual", "match"}

\* a discovery-mode result for a ticket on which priority, urgency, impact,
\* type, item and group are all null
C13_Witness ==
    /\ FoundResults = {1}
    /\ fs_tickets[1].priority = NoneInt
    /\ fs_tickets[1].urgency = NoneInt
    /\ fs_tickets[1].impact = NoneInt
    /\ fs_tickets[1].type = None
    /\ fs_tickets[1].item = None
    /\ fs_tickets[1].group_id = None
    /\ sent_emails[1].priority = Absent
    /\ Cardinality(DOMAIN verification_results[1].comparisons) = 8

\* C14: verify_batch returns exactly one result per sent record, in input
\* order; the summary has total = number of sent records = found + not_found
\* and found = passed + failed + number of DISCOVERY results; total_sent,
\* total_found and total_not_found agree with the summary's counts.
C14_CountConservation ==
    pc = "done" =>
        LET summary == output.summary
            discovery == Cardinality({k \in DOMAIN output.results :
                             output.results[k].overall_result = "DISCOVERY"})
        IN  /\ Len(output.results) = Len(sent_emails)
            /\ \A k \in DOMAIN output.results :
                  /\ output.results[k].expected = sent_emails[k]
                  /\ output.results[k].ticket_number = sent_emails[k].number
            /\ summary.total_tickets = Len(sent_emails)
            /\ summary.total_tickets = summary.found + summary.not_found
            /\ summary.found = summary.passed + summary.failed + discovery
            /\ output.total_sent = summary.total_tickets
            /\ output.total_found = summary.found
            /\ output.total_not_found = summary.not_found

\* a finished batch of two records for the same tag: the first is bound in
\* discovery mode, the second finds no open ticket
C14_Witness ==
    /\ pc = "done"
    /\ Len(sent_emails) = 2
    /\ output.results[1].overall_result = "DISCOVERY"
    /\ output.results[2].status = "NOT_FOUND"
    /\ output.summary.found = 1
    /\ output.summary.passed = 0
    /\ output.summary.failed = 0

\* the expected category, sub_category and item of the category paths compared
ExpectedLevels ==
    ("Network>VPN>Down" :> <<"Network", "VPN", "Down">>) @@
    ("Network > VPN" :> <<"Network", "VPN", None>>) @@
    ("Network > VPN > Down > Client" :> <<"Network", "VPN", "Down">>)

\* C20: in normal mode the expected category path is split on '>' into trimmed
\* segments, of which the first three are the expected category, sub_category
\* and item; each level is a match if and only if the ticket's value equals
\* it, a level that is absent from the path and null on the ticket is a match,
\* and every match is counted in match_count.
C20_CategoryLevels ==
    \A k \in FoundResults \ DiscoveryResults :
        LET r == verification_results[k]
            levels == ExpectedLevels[sent_emails[k].category]
            Equal(field, level) ==
                IF r.actual[field] = levels[level] THEN "True" ELSE "False"
        IN  /\ r.comparisons["category"].match = Equal("category", 1)
            /\ r.comparisons["sub_category"].match = Equal("sub_category", 2)
            /\ r.comparisons["item"].match = Equal("item", 3)
            /\ (levels[3] = None /\ r.actual.item = None) =>
                  r.comparisons["item"].match = "True"
            /\ r.match_count =
                  Cardinality({f \in DOMAIN r.comparisons :
                                  r.comparisons[f].match = "True"})
            /\ r.match_count >=
                  Cardinality({f \in {"category", "sub_category", "item"} :
                                  r.comparisons[f].match = "True"})

\* a path of two blank-padded segments against a ticket without an item: the
\* three levels match and are counted
C20_Witness ==
    /\ verification_results # <<>>
    /\ DiscoveryResults = {}
    /\ sent_emails[1].category = "Network > VPN"
    /\ fs_tickets[1].item = None
    /\ verification_results[1].comparisons["category"].match = "True"
    /\ verification_results[1].comparisons["sub_category"].match = "True"
    /\ verification_results[1].comparisons["item"].match = "True"
    /\ verification_results[1].comparisons["item"].expected = "N/A"
    /\ verification_results[1].match_count >= 3

\* C15: when the search API is entirely unreachable (every search of the
\* fallback chain fails with a transport error), verify_batch aborts with an
\* error: it returns no result structure that reports records as NOT_FOUND.
C15_UnreachableAborts ==
    \A k \in DOMAIN output.results : output.results[k].status # "NOT_FOUND"

\* C16: a failure while fetching page k of a search (a status other than 200,
\* a timeout, malformed JSON) costs the candidates of that page only: the
\* search returns the tickets of the pages fetched before, and the fallback
\* chain is entered only when the search as a whole returned none.
C16_PageFailureKeepsEarlierPages ==
    [][/\ (FetchBadStatus \/ FetchRaises) => fs_tickets' = all_tickets
       /\ (pc = "fetch" /\ pc' \in {"method2", "method3"}) => fs_tickets' = <<>>]_vars

\* the hard cap on the candidates of one search (500 in the specification);
\* the ticket source holds more tickets than the cap
HardCap == MaxTickets - 1

\* C17: every search of verify_batch, the unfiltered one included, stops
\* requesting pages after a bounded number of requests and yields at most the
\* hard cap of candidates, even when the source answers every request with a
\* full page.
C17_HardCap ==
    /\ Len(all_tickets) <= HardCap
    /\ Len(fs_tickets) <= HardCap

\* the permutations of 1..n
Orders(n) ==
    {p \in [1..n -> 1..n] : \A a, b \in 1..n : p[a] = p[b] => a = b}

\* the records of the batch carry pairwise distinct sequence numbers
DistinctNumbers ==
    \A a, b \in DOMAIN sent_emails :
        a # b => sent_emails[a].number # sent_emails[b].number

\* the finished batch gave every record the status, the ticket id and the
\* verdict, and the summary the counts, that each permutation of the records
\* gives on the same candidate list
SameUnderEveryOrder ==
    \A p \in Orders(Len(sent_emails)) :
        LET permuted == [k \in DOMAIN sent_emails |-> sent_emails[p[k]]]
            other == MatchLoop(permuted, fs_tickets, {}, hash_seed)
            summary == _generate_summary(other)
        IN  /\ \A k \in DOMAIN other :
                  /\ other[k].status = output.results[p[k]].status
                  /\ other[k].freshservice_id
                        = output.results[p[k]].freshservice_id
                  /\ other[k].overall_result
                        = output.results[p[k]].overall_result
            /\ summary.found = output.summary.found
            /\ summary.not_found = output.summary.not_found
            /\ summary.passed = output.summary.passed
            /\ summary.failed = output.summary.failed

\* C19 as stated: for records with pairwise distinct sequence numbers and any
\* candidate list, every permutation of the records gives each record the same
\* status, bound ticket id and overall_result, and the same summary counts.
C19_OrderIndependent ==
    (pc = "done" /\ DistinctNumbers) => SameUnderEveryOrder

\* no ticket id of the candidate list comes with the tags of two records of
\* the batch in its subject
NoSharedCandidate ==
    \A i, j \in DOMAIN fs_tickets :
        \A a, b \in DOMAIN sent_emails :
            (/\ fs_tickets[i].id = fs_tickets[j].id
             /\ Contains(Prefix(sent_emails[a].number), fs_tickets[i].subject)
             /\ Contains(Prefix(sent_emails[b].number), fs_tickets[j].subject))
                => sent_emails[a].number = sent_emails[b].number

\* C19 (amended): for records with pairwise distinct sequence numbers and a
\* candidate list in which no ticket carries the tags of two of the records,
\* every permutation of the records gives each record the same status, bound
\* ticket id and overall_result, and the same summary counts.
C19_OrderIndependentDisjointTags ==
    (pc = "done" /\ DistinctNumbers /\ NoSharedCandidate) => SameUnderEveryOrder

\* two records with distinct numbers were both bound, the second to a ticket
\* that precedes the ticket of the first in the candidate list
C19_Witness ==
    /\ pc = "done"
    /\ Len(sent_emails) = 2
    /\ DistinctNumbers
    /\ NoSharedCandidate
    /\ Found(1) /\ Found(2)
    /\ \E i, j \in DOMAIN fs_tickets :
          /\ j < i
          /\ fs_tickets[i].id = output.results[1].freshservice_id
          /\ fs_tickets[j].id = output.results[2].freshservice_id

\* the ticket ids bound by the FOUND results of a list of results
BoundIds(results) ==
    {results[k].freshservice_id :
        k \in {n \in DOMAIN results : results[n].status = "FOUND"}}

\* C18: two verify_batch calls that run concurrently share neither the
\* consumed-id set nor the candidate list: the consumed set of each call holds
\* the ids that this call bound and no others, so that a ticket consumed in
\* one call stays bindable in the other, and under every interleaving each
\* call returns the results that it returns when it runs alone on the same
\* search responses.
C18_RunsDoNotInterfere ==
    /\ matched_fs_tickets = BoundIds(verification_results)
    /\ second_run.matched_fs_tickets = BoundIds(second_run.verification_results)
    /\ pc = "done" =>
          output.results = MatchLoop(sent_emails, fs_tickets, {}, hash_seed)
    /\ second_run.pc = "done" =>
          second_run.output.results =
              MatchLoop(second_run.sent_emails, second_run.fs_tickets, {},
                        hash_seed)

\* the first call has bound a ticket and is still in its loop when the second
\* call returns a result bound to the same ticket
C18_Witness ==
    /\ pc = "match"
    /\ idx <= Len(sent_emails)
    /\ matched_fs_tickets # {}
    /\ second_run.pc = "done"
    /\ \E k \in DOMAIN second_run.output.results :
          second_run.output.results[k].freshservice_id \in matched_fs_tickets

\* C21: the expected urgency label and the expected impact label are
\* functions of the priority name alone: any two calls with the same priority
\* name return the identical label strings, the 'A or B' disjunctions of
\* Priority 2 and Priority 3 included.
C21_LabelsFunctionOfName ==
    \A a, b \in DOMAIN label_log :
        label_log[a].priority = label_log[b].priority =>
            /\ label_log[a].urgency = label_log[b].urgency
            /\ label_log[a].impact = label_log[b].impact

\* C22: a record with the keys priority, type and category whose category
\* path is unparseable (null) is handled by treating the segments as absent:
\* verify_batch does not raise, and every record of the batch gets its result.
C22_UnparseableCategoryTolerated ==
    /\ pc # "raised"
    /\ (idx > Len(sent_emails) /\ pc \in {"match", "done"}) =>
          Len(verification_results) = Len(sent_emails)

\* C23: get_tickets_by_email requests the pages one after another, appends
\* each page's tickets in page order, requests the next page only after a
\* full page, and returns the concatenation of the pages it fetched.
C23_ResultIsConcatenationOfPages ==
    [][pc = "fetch" =>
          /\ page' \in {page, page + 1}
          /\ page' = page + 1 <=>
                (pc' = "fetch" /\ Len(all_tickets') = Len(all_tickets) + PerPage)
          /\ SubSeq(all_tickets', 1, Len(all_tickets)) = all_tickets
          /\ pc' # "fetch" => fs_tickets' = all_tickets']_vars

\* the ticket that the result at position k was compared with
BoundTicket(k) ==
    CHOOSE t \in Range(fs_tickets) : t.id = verification_results[k].freshservice_id

\* C24: in normal mode the type comparison is a match if and only if the
\* ticket's type, taken as 'Incident' when it is exactly 'Incident' and as
\* 'Service Request' for every other value, null included, equals the
\* expected type.
C24_TypeNormalized ==
    \A k \in FoundResults \ DiscoveryResults :
        LET r == verification_results[k]
            actual == IF BoundTicket(k).type = "Incident" THEN "Incident"
                      ELSE "Service Request"
        IN  /\ r.comparisons["type"].actual = actual
            /\ r.comparisons["type"].match =
                  IF actual = sent_emails[k].type THEN "True" ELSE "False"

\* a ticket of another type than the two names, compared with an expected
\* Service Request: a match
C24_Witness ==
    /\ FoundResults = {1}
    /\ DiscoveryResults = {}
    /\ fs_tickets[1].type = "Problem"
    /\ sent_emails[1].type = "Service Request"
    /\ verification_results[1].comparisons["type"].match = "True"

\* C25: get_recent_tickets(email, limit) returns at most limit tickets, for
\* every sequence of page responses of the ticket source.
C25_AtMostLimit ==
    pc = "returned" => Len(fs_tickets) <= PerPage

\* C26: the fallback chain stops at the first search that returns at least
\* one ticket: every search before the last one returned none, at most three
\* searches are issued, the unfiltered search follows only an empty search,
\* and matching works on the list the last search returned, whether or not
\* any of its tickets carries a tag of the batch.
C26_ChainStopsAtFirstHit ==
    /\ Len(calls) <= 3
    /\ \A k \in DOMAIN calls : k < Len(calls) => calls[k].found = 0
    /\ pc \in {"match", "done"} =>
          /\ calls # <<>>
          /\ calls[Len(calls)].found = Len(fs_tickets)
          /\ fs_tickets # <<>> => fs_tickets = all_tickets

\* the first search returned a ticket that carries no tag of the batch: it
\* was the only search, and every record is NOT_FOUND
C26_Witness ==
    /\ pc = "done"
    /\ Len(calls) = 1
    /\ calls[1].found >= 1
    /\ sent_emails # <<>>
    /\ \A k \in DOMAIN output.results : output.results[k].status = "NOT_FOUND"

\* the (urgency, impact) pairs that make up a priority
ValidPairs(priority_name) ==
    CASE priority_name = "Priority 1" -> {<<"High", "High">>}
      [] priority_name = "Priority 2" -> {<<"High", "Medium">>, <<"Medium", "High">>}
      [] priority_name = "Priority 3" -> {<<"High", "Low">>, <<"Medium", "Medium">>,
                                          <<"Low", "High">>}
      [] priority_name = "Priority 4" -> {<<"Low", "Low">>}
      [] OTHER -> {}

\* C27: for a fully specified record, whenever both the urgency comparison
\* and the impact comparison are reported as match, the ticket's (urgency,
\* impact) pair is one of the valid pairs of the expected priority.
C27_UrgencyImpactPairValid ==
    \A k \in FoundResults \ DiscoveryResults :
        LET c == verification_results[k].comparisons
        IN  (c["urgency"].match = "True" /\ c["impact"].match = "True") =>
                <<c["urgency"].actual, c["impact"].actual>> \in
                    ValidPairs(sent_emails[k].priority)

\* the sequence numbers whose complete bracketed tag occurs in the subject of
\* the ticket with this id
NumbersTagged(id) ==
    CASE id = 101 -> {42}
      [] id = 102 -> {42, 7}
      [] id = 103 -> {421}
      [] id = 104 -> {7}
      [] OTHER -> {}

\* C28: a sent record with number n is bound only to a ticket whose subject
\* contains the complete tag [TEST-TKT-n]; it is never bound to a ticket that
\* carries only the tag of another number, even when the digits of n are a
\* prefix of that number's digits (42 and 421).
C28_BoundByCompleteTag ==
    \A k \in FoundResults :
        verification_results[k].ticket_number \in
            NumbersTagged(verification_results[k].freshservice_id)

\* the ticket tagged 421 comes first among the candidates; record 42 is bound
\* to a later ticket that carries its own tag, and the ticket tagged 421 is
\* left unbound
C28_Witness ==
    /\ fs_tickets[1].id = 103
    /\ \E k \in FoundResults : verification_results[k].ticket_number = 42
    /\ 103 \notin matched_fs_tickets
    /\ idx > Len(sent_emails)

\* the results of fully specified records whose priority name is none of the
\* four recognized names
UnrecognizedPriorityResults ==
    {k \in FoundResults \ DiscoveryResults :
        sent_emails[k].priority \notin
            {"Priority 1", "Priority 2", "Priority 3", "Priority 4"}}

\* C29: for a fully specified record whose priority name is not one of the
\* four recognized names, the expected urgency and impact labels are
\* 'Unknown', both comparisons are mismatches for every ticket value, null
\* included, and overall_result is FAIL, also when the ticket's priority is 2.
C29_UnknownPriorityFails ==
    \A k \in UnrecognizedPriorityResults :
        LET r == verification_results[k]
        IN  /\ r.comparisons["urgency"].expected = "Unknown"
            /\ r.comparisons["impact"].expected = "Unknown"
            /\ r.comparisons["urgency"].match = "False"
            /\ r.comparisons["impact"].match = "False"
            /\ r.overall_result = "FAIL"

\* an unrecognized name against a ticket of priority 2 with null urgency and
\* null impact: the priority matches, the result is FAIL
C29_Witness ==
    /\ UnrecognizedPriorityResults = {1}
    /\ fs_tickets[1].priority = 2
    /\ fs_tickets[1].urgency = NoneInt
    /\ fs_tickets[1].impact = NoneInt
    /\ verification_results[1].comparisons["priority"].match = "True"
    /\ verification_results[1].overall_result = "FAIL"

\* C30: sequence numbers stay unique across sessions: a number handed out by
\* get_range or get_next_number is never handed out again, for every
\* interleaving of allocation, finalize and process exit. Within a session
\* the counter only grows, so a number that occurs twice was handed out by
\* two sessions.
C30_NumbersUniqueAcrossSessions ==
    \A a, b \in DOMAIN handed_out :
        a # b => handed_out[a] # handed_out[b]

====
